---- MODULE Spec2Model ----
(***************************************************************************)
(* State-machine model of the Expressive AAC Board backend (src/main.py):  *)
(* the /generate_speech relay with its emotion tagging, voice resolution   *)
(* and retry loop, the flat-file voice directory, and the voice-status,    *)
(* save-voice-id and create-voice endpoints.                               *)
(*                                                                         *)
(* Python strings on which the code computes (text, emotion, voice ids)    *)
(* are sequences of one-character strings, so that strip(), lower(),       *)
(* startswith() and slicing are modelled by what they do.  Speeds are in   *)
(* hundredths (1.1 is 110).  Every endpoint is an `async def` that never   *)
(* awaits between its first and its last statement that touches shared     *)
(* state, and uvicorn runs one event loop, so one handler runs at a time:  *)
(* pc says where the running handler is, "done" once it has answered and   *)
(* "idle" when the server waits for the next request.                      *)
(***************************************************************************)
EXTENDS Integers, Sequences, FiniteSets, TLC

VARIABLES
    api_key,          \* whether FISH_AUDIO_API_KEY is set                (line 81)
    client,           \* TRUE when the FishAudio client exists            (line 82)
    default_voice_id, \* process-wide default voice, None when none       (line 83)
    voices,           \* what the provider answered the startup queries
    voice_storage,    \* contents of VOICE_STORAGE_FILE: user -> voice id
    file_truncated,   \* VOICE_STORAGE_FILE was opened for writing and not rewritten
    pc,               \* position of the running handler
    request,          \* the request being handled (or handled last)
    text,             \* generate_speech local: the cleaned text
    emotion_lower,    \* generate_speech local
    prompt_text,      \* generate_speech local
    user_voice_id,    \* generate_speech local
    convert_params,   \* generate_speech local
    attempt,          \* generate_speech local: loop index of the retry loop
    tts_calls,        \* arguments of the client.tts.convert calls of this request
    tts_results,      \* what the provider answered each of them
    sleeps,           \* the time.sleep waits of this request
    cover_image_available, \* create_voice local
    posts,            \* create_voice: the cover field name of each requests.post made
    post_results,     \* create_voice: what the provider answered each of them
    storage_errors,   \* the storage errors the running handler has printed
    response          \* the HTTP response of the request handled last

vars == <<api_key, client, default_voice_id, voices, voice_storage,
          file_truncated, pc, request,
          text, emotion_lower, prompt_text, user_voice_id, convert_params,
          attempt, tts_calls, tts_results, sleeps, cover_image_available, posts,
          post_results, storage_errors, response>>

gs_locals == <<text, emotion_lower, prompt_text, user_voice_id, convert_params,
               attempt, tts_calls, tts_results, sleeps>>

cv_locals == <<cover_image_available, posts, post_results>>

startup_vars == <<api_key, client, default_voice_id, voices>>

storage_vars == <<voice_storage, file_truncated>>

----------------------------------------------------------------------------
(* Python values *)

\* Python's None, where a string may stand: no string of characters equals it.
None == <<"None">>

\* Truthiness of an Optional[str]: None and "" are falsy.
Truthy(v) == v /= None /\ v /= <<>>

UpperChars == <<"A","B","C","D","E","F","G","H","I","J","K","L","M",
                "N","O","P","Q","R","S","T","U","V","W","X","Y","Z">>

LowerChars == <<"a","b","c","d","e","f","g","h","i","j","k","l","m",
                "n","o","p","q","r","s","t","u","v","w","x","y","z">>

LowerChar(c) ==
    IF \E i \in DOMAIN UpperChars : UpperChars[i] = c
    THEN LowerChars[CHOOSE i \in DOMAIN UpperChars : UpperChars[i] = c]
    ELSE c

\* str.lower()
lower(s) == [i \in 1..Len(s) |-> LowerChar(s[i])]

IsSpace(c) == c \in {" ", "\t", "\n"}

SetMin(S) == CHOOSE x \in S : \A y \in S : x <= y

SetMax(S) == CHOOSE x \in S : \A y \in S : x >= y

\* str.strip()
strip(s) ==
    LET keep == {i \in 1..Len(s) : ~IsSpace(s[i])}
    IN  IF keep = {} THEN <<>> ELSE SubSeq(s, SetMin(keep), SetMax(keep))

\* str.startswith(p)
startswith(s, p) == Len(s) >= Len(p) /\ SubSeq(s, 1, Len(p)) = p

\* s[n:]
SliceFrom(s, n) == SubSeq(s, n + 1, Len(s))

\* needle in message, a message being a sequence of words
Contains(message, needle) == \E i \in DOMAIN message : message[i] = needle

----------------------------------------------------------------------------
(* Program constants *)

s_happy == <<"h","a","p","p","y">>

s_sad == <<"s","a","d">>

s_neutral == <<"n","e","u","t","r","a","l">>

s_surprised == <<"s","u","r","p","r","i","s","e","d">>

s_angry == <<"a","n","g","r","y">>

valid_emotions == <<s_happy, s_sad, s_neutral, s_surprised, s_angry>>

EMOTION_VOICE_PARAMS ==
    [e \in {s_happy, s_sad, s_neutral, s_surprised, s_angry} |->
        [speed |-> CASE e = s_happy     -> 110
                     [] e = s_sad       -> 90
                     [] e = s_neutral   -> 100
                     [] e = s_surprised -> 115
                     [] e = s_angry     -> 105]]

max_retries == 3

retry_delay == 1

\* f'({emotion_lower})'
EmotionTag(e) == <<"(">> \o e \o <<")">>

----------------------------------------------------------------------------
(* The voice directory *)

Users == {"default", "u1"}

EmptyStorage == [u \in Users |-> None]

\* line 50: the file exists once a write has opened it
FileExists == voice_storage /= EmptyStorage \/ file_truncated

\* lines 52-53: open() or json.load() raises: the read fails, or the file does not
\* hold a whole JSON document
LoadRaises(read_ok) == FileExists /\ (~read_ok \/ file_truncated)

\* lines 48-57, load_voice_storage: the file's mapping; {} when there is no file or
\* when reading it raises
load_voice_storage(read_ok) ==
    IF LoadRaises(read_ok) THEN EmptyStorage ELSE voice_storage

\* line 55
LoadErrors(read_ok) ==
    IF LoadRaises(read_ok) THEN <<"Error loading voice storage">> ELSE <<>>

\* lines 61-63: what a write of the file does.  open(..., 'w') may raise, and the
\* file is then as it was; once it has returned the file is empty, and json.dump
\* or the close that flushes it may raise (disk full, I/O error) before the
\* document is whole.
Written == "written"

OpenRaises == "open raises"

DumpRaises == "dump raises"

WriteOutcomes == {Written, OpenRaises, DumpRaises}

\* line 66
SaveErrors(write) ==
    IF write = Written THEN <<>> ELSE <<"Error saving voice storage">>

\* lines 59-67, save_voice_storage: the mapping the file holds after the write
save_voice_storage(data, write) ==
    IF write = Written THEN data
    ELSE IF write = DumpRaises THEN EmptyStorage
    ELSE voice_storage

\* lines 61-63: whether the file is left without a whole document
TruncatedAfter(write) ==
    IF write = Written THEN FALSE
    ELSE IF write = DumpRaises THEN TRUE
    ELSE file_truncated

\* Mutant: the voice of the default user is every user's voice.
get_user_voice_id_OfDefault(user_id, read_ok) ==
    load_voice_storage(read_ok)["default"]

\* lines 69-72, get_user_voice_id: storage.get(user_id)
get_user_voice_id(user_id, read_ok) ==
    IF user_id \in Users THEN load_voice_storage(read_ok)[user_id] ELSE None

\* lines 74-78, save_user_voice_id: load, set one key, save; the file afterwards
save_user_voice_id(user_id, voice_id, read_ok, write) ==
    save_voice_storage([load_voice_storage(read_ok) EXCEPT ![user_id] = voice_id],
                       write)

----------------------------------------------------------------------------
(* Startup: lines 81-123 *)

VoiceA == <<"v","A">>

VoiceB == <<"v","B">>

VoiceE == <<"v","E">>

\* An answer of client.voices.list: the call raised (ok = FALSE) or returned items.
NotQueried == [ok |-> FALSE, items |-> <<>>, asked |-> FALSE]

ListFailed == [ok |-> FALSE, items |-> <<>>, asked |-> TRUE]

Listed(items) == [ok |-> TRUE, items |-> items, asked |-> TRUE]

AmericanAnswers == {ListFailed, Listed(<<>>), Listed(<<VoiceA, VoiceB>>)}

EnglishAnswers == {ListFailed, Listed(<<>>), Listed(<<VoiceE, VoiceA>>)}

\* What the provider would answer a query that startup does not make
Unasked(answer) == [answer EXCEPT !.asked = FALSE]

\* The startups that can happen: no key; FishAudio() raises; the American query
\* finds voices, or raises while the provider has English voices or has none (the
\* English query is then not made); or both queries are made.
StartupScenarios ==
    {[key |-> FALSE, init_ok |-> FALSE, american |-> NotQueried, english |-> NotQueried],
     [key |-> TRUE, init_ok |-> FALSE, american |-> NotQueried, english |-> NotQueried],
     [key |-> TRUE, init_ok |-> TRUE, american |-> Listed(<<VoiceA, VoiceB>>),
      english |-> NotQueried]}
    \cup {[key |-> TRUE, init_ok |-> TRUE, american |-> ListFailed,
           english |-> Unasked(e)] : e \in {Listed(<<>>), Listed(<<VoiceE, VoiceA>>)}}
    \cup {[key |-> TRUE, init_ok |-> TRUE, american |-> Listed(<<>>), english |-> e] :
            e \in EnglishAnswers}

\* lines 85-91, 121-123
StartupClient(s) == s.key /\ s.init_ok

\* lines 95-119: an American query that raises leaves the except of line 117 with
\* no English query made
StartupDefaultVoice(s) ==
    IF ~(s.key /\ s.init_ok) THEN None
    ELSE IF ~s.american.ok THEN None
    ELSE IF Len(s.american.items) > 0 THEN s.american.items[1]
    ELSE IF ~s.english.ok THEN None
    ELSE IF Len(s.english.items) > 0 THEN s.english.items[1]
    ELSE None

----------------------------------------------------------------------------
(* generate_speech: lines 506-675 *)

\* Mutant: the check of the client is left out.
ClientIsNone_Skipped == FALSE

\* lines 150 and 563: client is None
ClientIsNone == ~client

\* Mutant: the text is tested without being stripped.
TextIsEmpty_NoStrip(t) == t = <<>>

\* line 531: not text or not text.strip()
TextIsEmpty(t) == t = <<>> \/ strip(t) = <<>>

\* lines 534-535: a missing emotion is neutral
EmotionOrNeutral(e) == IF e = <<>> THEN s_neutral ELSE e

\* Mutant: a leading tag is left in the text.
CleanText_KeepTag(t, e_lower) == strip(t)

\* lines 538-544: the text stripped, then without a leading "(emotion)" tag
CleanText(t, e_lower) ==
    LET stripped == strip(t)
    IN  IF startswith(lower(stripped), EmotionTag(e_lower))
        THEN strip(SliceFrom(stripped, Len(EmotionTag(e_lower))))
        ELSE stripped

\* lines 547-550: an emotion outside valid_emotions becomes neutral
ValidEmotion(e_lower) ==
    IF \E i \in DOMAIN valid_emotions : valid_emotions[i] = e_lower
    THEN e_lower
    ELSE s_neutral

\* Mutant: no space between the tag and the text.
PromptText_NoSpace(t, e_lower) ==
    IF e_lower = s_neutral THEN t ELSE EmotionTag(e_lower) \o t

\* lines 553-556
PromptText(t, e_lower) ==
    IF e_lower = s_neutral THEN t ELSE EmotionTag(e_lower) \o <<" ">> \o t

\* Mutant: the process-wide default wins over the user's voice.
VoiceIdToUse_DefaultFirst(user_voice, default_voice) ==
    IF Truthy(default_voice) THEN default_voice ELSE user_voice

\* line 571
VoiceIdToUse(user_voice, default_voice) ==
    IF Truthy(user_voice) THEN user_voice ELSE default_voice

\* Mutant: every emotion gets the parameters of neutral.
VoiceParams_OfNeutral(e_lower) == EMOTION_VOICE_PARAMS[s_neutral]

\* line 581: EMOTION_VOICE_PARAMS.get(emotion_lower, EMOTION_VOICE_PARAMS['neutral'])
VoiceParams(e_lower) ==
    IF e_lower \in DOMAIN EMOTION_VOICE_PARAMS
    THEN EMOTION_VOICE_PARAMS[e_lower]
    ELSE EMOTION_VOICE_PARAMS[s_neutral]

\* lines 592-604: reference_id is a key of the dict only when there is a voice
ConvertParams(prompt, e_lower, voice) ==
    IF Truthy(voice)
    THEN [text |-> prompt, speed |-> VoiceParams(e_lower).speed, model |-> "s1",
          reference_id |-> voice]
    ELSE [text |-> prompt, speed |-> VoiceParams(e_lower).speed, model |-> "s1"]

\* Mutant: one retry too many.
ShouldRetry_OffByOne(n) == n < max_retries

\* line 623
ShouldRetry(n) == n < max_retries - 1

\* Mutant: the wait does not grow.
WaitTime_Constant(n) == retry_delay

\* line 624
WaitTime(n) == retry_delay * (2 ^ n)

\* line 664
ApiErrorStatus(error_message) == IF Contains(error_message, "402") THEN 402 ELSE 500

\* lines 655-661
ApiErrorDetail(error_message) ==
    IF \/ Contains(error_message, "402")
       \/ Contains(error_message, "Invalid api key")
       \/ Contains(error_message, "insufficient balance")
    THEN "Fish Audio API Error: Invalid API key or insufficient balance."
    ELSE "Fish Audio API Error: error_message"

----------------------------------------------------------------------------
(* What the provider answers client.tts.convert *)

Audio1 == <<73, 68, 51>>

Audio2 == <<255, 251>>

\* str(e) of an APIError, as a sequence of words
Msg503 == <<"503", "Service Unavailable">>

Msg402 == <<"402", "insufficient balance">>

Msg401 == <<"401", "Invalid api key">>

Msg400 == <<"400", "Bad Request">>

GotAudio(a) == [kind |-> "audio", audio |-> a, message |-> <<>>]

RaisedAPIError(m) == [kind |-> "APIError", audio |-> <<>>, message |-> m]

\* any exception that is not an APIError (a connection error, a TypeError, ...)
RaisedException == [kind |-> "Exception", audio |-> <<>>, message |-> <<"connection reset">>]

ApiErrorMessages == {Msg503, Msg402, Msg401, Msg400}

TtsResults ==
    {GotAudio(a) : a \in {Audio1, Audio2}}
    \cup {RaisedAPIError(m) : m \in ApiErrorMessages}
    \cup {RaisedException}

\* The provider's own classes of failure
IsTransient(m) == Contains(m, "503")

ReportsKeyOrBalance(m) ==
    Contains(m, "Invalid api key") \/ Contains(m, "insufficient balance")

----------------------------------------------------------------------------
(* Responses *)

NoResponse == [endpoint |-> "none", status |-> 0]

Pending(endpoint) == [endpoint |-> endpoint, status |-> 0]

\* HTTPException(status_code, detail): FastAPI answers it as JSON
HttpError(endpoint, status, detail) ==
    [endpoint |-> endpoint, status |-> status, media_type |-> "application/json",
     content |-> <<>>, detail |-> detail]

\* Mutant: the audio is answered as JSON.
AudioResponse_Json(audio_bytes) ==
    [endpoint |-> "generate_speech", status |-> 200,
     media_type |-> "application/json", content |-> audio_bytes, detail |-> ""]

\* lines 643-649
AudioResponse(audio_bytes) ==
    [endpoint |-> "generate_speech", status |-> 200, media_type |-> "audio/mpeg",
     content |-> audio_bytes, detail |-> ""]

\* lines 651-666
ApiErrorResponse(error_message) ==
    HttpError("generate_speech", ApiErrorStatus(error_message),
              ApiErrorDetail(error_message))

NoParams == [text |-> None]

Missing == "<missing>"

\* A key the request body does not have, and a JSON value that is not a string
JsonAbsent == <<"absent">>

JsonNull == <<"null">>

\* line 518: request.user_id or "default"
UserIdOrDefault(u) == IF u = Missing \/ u = "" THEN "default" ELSE u

\* lines 140, 460, 483: the parameter's default when the request does not give it
UserIdParam(u) == IF u = Missing THEN "default" ELSE u

\* The locals of create_voice do not outlive it.
NoCvLocals ==
    /\ cover_image_available' = FALSE
    /\ posts' = <<>>
    /\ post_results' = <<>>

----------------------------------------------------------------------------
(* Actions of generate_speech *)

\* lines 516-604: from the request to the first client.tts.convert call
generate_speech(text_in, emotion_in, user_in, resubmit, read_ok) ==
    /\ pc = IF resubmit THEN "done" ELSE "idle"
    /\ request' = [endpoint |-> "generate_speech", text |-> text_in,
                   emotion |-> emotion_in, user_id |-> user_in,
                   resubmit |-> resubmit]
    /\ attempt' = 0
    /\ tts_calls' = <<>>
    /\ tts_results' = <<>>
    /\ sleeps' = <<>>
    /\ NoCvLocals
    /\ UNCHANGED <<startup_vars, storage_vars>>
    /\ IF TextIsEmpty(text_in)
       THEN /\ response' = HttpError("generate_speech", 400,
                                     "Text cannot be empty and must be a string")
            /\ pc' = "done"
            /\ text' = None
            /\ emotion_lower' = None
            /\ prompt_text' = None
            /\ user_voice_id' = None
            /\ convert_params' = NoParams
            /\ storage_errors' = <<>>
       ELSE LET raw_lower == lower(EmotionOrNeutral(emotion_in))
                cleaned == CleanText(text_in, raw_lower)
                e_lower == ValidEmotion(raw_lower)
                prompt == PromptText(cleaned, e_lower)
                stored == get_user_voice_id(UserIdOrDefault(user_in), read_ok)
            IN  /\ text' = cleaned
                /\ emotion_lower' = e_lower
                /\ prompt_text' = prompt
                /\ IF ClientIsNone
                   THEN /\ response' = HttpError("generate_speech", 500,
                                                 "Fish Audio client not initialized.")
                        /\ pc' = "done"
                        /\ user_voice_id' = None
                        /\ convert_params' = NoParams
                        /\ storage_errors' = <<>>
                   ELSE /\ response' = Pending("generate_speech")
                        /\ storage_errors' = LoadErrors(read_ok)
                        /\ pc' = "convert"
                        /\ user_voice_id' = stored
                        /\ convert_params' =
                               ConvertParams(prompt, e_lower,
                                             VoiceIdToUse(stored, default_voice_id))

\* lines 615-675: one client.tts.convert call and what the handler does with its outcome
tts_convert(result) ==
    /\ pc = "convert"
    /\ tts_calls' = Append(tts_calls, convert_params)
    /\ tts_results' = Append(tts_results, result)
    /\ UNCHANGED <<startup_vars, storage_vars, request, text, emotion_lower,
                   prompt_text, user_voice_id, convert_params, attempt, cv_locals,
                   storage_errors>>
    /\ IF result.kind = "audio"
       THEN /\ response' = AudioResponse(result.audio)
            /\ pc' = "done"
            /\ sleeps' = sleeps
       ELSE IF result.kind = "APIError"
       THEN IF ShouldRetry(attempt)
            THEN /\ sleeps' = Append(sleeps, WaitTime(attempt))
                 /\ pc' = "sleep"
                 /\ response' = response
            ELSE /\ response' = ApiErrorResponse(result.message)
                 /\ pc' = "done"
                 /\ sleeps' = sleeps
       ELSE /\ response' = HttpError("generate_speech", 500,
                                     "Failed to generate speech")
            /\ pc' = "done"
            /\ sleeps' = sleeps

\* Mutant: the handler empties the voice directory before its next attempt.
sleep_returns_ClearingDirectory ==
    /\ pc = "sleep"
    /\ pc' = "convert"
    /\ attempt' = attempt + 1
    /\ voice_storage' = EmptyStorage
    /\ file_truncated' = FALSE
    /\ UNCHANGED <<startup_vars, request, text, emotion_lower, prompt_text,
                   user_voice_id, convert_params, tts_calls, tts_results, sleeps,
                   cv_locals, storage_errors, response>>

\* line 627 returns: the loop goes on to its next attempt
sleep_returns ==
    /\ pc = "sleep"
    /\ pc' = "convert"
    /\ attempt' = attempt + 1
    /\ UNCHANGED <<startup_vars, storage_vars, request, text, emotion_lower,
                   prompt_text, user_voice_id, convert_params, tts_calls,
                   tts_results, sleeps, cv_locals, storage_errors, response>>

\* The locals of generate_speech do not outlive it.
NoGsLocals ==
    /\ text' = None
    /\ emotion_lower' = None
    /\ prompt_text' = None
    /\ user_voice_id' = None
    /\ convert_params' = NoParams
    /\ attempt' = 0
    /\ tts_calls' = <<>>
    /\ tts_results' = <<>>
    /\ sleeps' = <<>>

\* The handler has returned: its request, locals and response are gone and the
\* event loop takes the next request.
request_served ==
    /\ pc = "done"
    /\ pc' = "idle"
    /\ request' = [endpoint |-> "none"]
    /\ response' = NoResponse
    /\ storage_errors' = <<>>
    /\ NoGsLocals
    /\ NoCvLocals
    /\ UNCHANGED <<startup_vars, storage_vars>>

----------------------------------------------------------------------------
(* voice-status and save-voice-id *)

\* lines 459-475
get_voice_status(user_in, read_ok) ==
    /\ pc = "idle"
    /\ request' = [endpoint |-> "voice-status", user_id |-> user_in]
    /\ LET voice_id == get_user_voice_id(UserIdParam(user_in), read_ok)
       IN  response' =
             IF Truthy(voice_id)
             THEN [endpoint |-> "voice-status", status |-> 200, has_voice |-> TRUE,
                   voice_id |-> voice_id, status_text |-> "Personal Voice Activated"]
             ELSE [endpoint |-> "voice-status", status |-> 200, has_voice |-> FALSE,
                   voice_id |-> None, status_text |-> "Voice Model Not Setup"]
    /\ storage_errors' = LoadErrors(read_ok)
    /\ pc' = "done"
    /\ NoGsLocals
    /\ NoCvLocals
    /\ UNCHANGED <<startup_vars, storage_vars>>

\* line 484: request.get('voice_id', ''): "" when the body has no voice_id
VoiceIdOrEmpty(v) == IF v = JsonAbsent THEN <<>> ELSE v

\* line 484: .strip() is an attribute of str only; the body's voice_id may be any
\* JSON value (null, a number, ...), and the call then raises AttributeError
IsStr(v) == v /= JsonNull

\* lines 478-503.  Line 484 is outside the try of line 489, so its AttributeError
\* is answered by the server's 500.
save_voice_id(user_in, voice_in, read_ok, write) ==
    /\ pc = "idle"
    /\ request' = [endpoint |-> "save-voice-id", user_id |-> user_in,
                   voice_id |-> voice_in]
    /\ LET user_id == UserIdParam(user_in)
           voice_id == strip(VoiceIdOrEmpty(voice_in))
       IN  IF ~IsStr(VoiceIdOrEmpty(voice_in))
           THEN /\ response' = HttpError("save-voice-id", 500,
                                         "Internal Server Error")
                /\ UNCHANGED storage_vars
                /\ storage_errors' = <<>>
           ELSE IF ~Truthy(voice_id)
           THEN /\ response' = HttpError("save-voice-id", 400,
                                         "Voice ID cannot be empty")
                /\ UNCHANGED storage_vars
                /\ storage_errors' = <<>>
           ELSE /\ voice_storage' =
                       save_user_voice_id(user_id, voice_id, read_ok, write)
                /\ file_truncated' = TruncatedAfter(write)
                /\ storage_errors' = LoadErrors(read_ok) \o SaveErrors(write)
                /\ response' = [endpoint |-> "save-voice-id", status |-> 200,
                                success |-> TRUE, user_id |-> user_id,
                                voice_id |-> voice_id]
    /\ pc' = "done"
    /\ NoGsLocals
    /\ NoCvLocals
    /\ UNCHANGED startup_vars

----------------------------------------------------------------------------
(* create_voice: lines 137-456 *)

MaxAudioBytes == 10485760

MinAudioBytes == 1000

\* Mutant: the first two field names change places.
cover_field_names_Swapped ==
    <<"cover_image", "cover", "image", "coverImage", "thumbnail", "thumb">>

\* line 321
cover_field_names ==
    <<"cover", "cover_image", "image", "coverImage", "thumbnail", "thumb">>

VoiceC == <<"v","C">>

\* What the provider answers a requests.post to /model: a response with its status
\* code, the voice id its JSON body gives under _id, id, voice_id or reference_id
\* (None when it gives none or is no JSON), and whether its text speaks of a
\* cover image; or the post raised a RequestException.
Answered(status, voice_id, cover) ==
    [kind |-> "response", status |-> status, voice_id |-> voice_id,
     cover_image_in_text |-> cover]

PostFailed ==
    [kind |-> "RequestException", status |-> 0, voice_id |-> None,
     cover_image_in_text |-> FALSE]

PostResults ==
    {Answered(201, VoiceC, FALSE), Answered(201, None, FALSE),
     Answered(200, VoiceC, FALSE),
     Answered(400, None, TRUE), Answered(400, None, FALSE),
     Answered(500, None, FALSE), PostFailed}

\* What a re-upload is answered: an acceptance, a success status without a voice id,
\* the cover image refused again, or the post raises
RetryResults ==
    {Answered(201, VoiceC, FALSE), Answered(201, None, FALSE),
     Answered(400, None, TRUE), PostFailed}

\* Mutant: the success answer carries no voice id.
VoiceCreated_NoId(user_id, voice_id) ==
    [endpoint |-> "create-voice", status |-> 200, success |-> TRUE,
     voice_id |-> None, user_id |-> user_id]

\* lines 433-438
VoiceCreated(user_id, voice_id) ==
    [endpoint |-> "create-voice", status |-> 200, success |-> TRUE,
     voice_id |-> voice_id, user_id |-> user_id]

\* lines 415-427: an HTTPException raised inside the inner try is an Exception, so
\* the inner handler answers it as a 500 whatever status it carried
InnerHandler(status) ==
    HttpError("create-voice", 500, "Failed to create voice model")

\* line 163
AudioTooLarge(n) == n > MaxAudioBytes

\* Mutant: a payload of exactly the smallest size is refused.
AudioTooSmall_Inclusive(n) == n <= MinAudioBytes

\* line 165
AudioTooSmall(n) == n < MinAudioBytes

\* lines 150-166: the checks made before anything is sent
create_voice(user_in, audio_len, cover_ok) ==
    /\ pc = "idle"
    /\ request' = [endpoint |-> "create-voice", user_id |-> user_in,
                   audio_len |-> audio_len]
    /\ NoGsLocals
    /\ posts' = <<>>
    /\ post_results' = <<>>
    /\ storage_errors' = <<>>
    /\ UNCHANGED <<startup_vars, storage_vars>>
    /\ IF ClientIsNone
       THEN /\ response' = HttpError("create-voice", 500,
                                     "Fish Audio client not initialized.")
            /\ pc' = "done"
            /\ cover_image_available' = FALSE
       ELSE IF AudioTooLarge(audio_len)
       THEN /\ response' = HttpError("create-voice", 400,
                                     "Audio file too large (max 10MB)")
            /\ pc' = "done"
            /\ cover_image_available' = FALSE
       ELSE IF AudioTooSmall(audio_len)
       THEN /\ response' = HttpError("create-voice", 400, "Audio file too small")
            /\ pc' = "done"
            /\ cover_image_available' = FALSE
       ELSE /\ response' = Pending("create-voice")
            /\ pc' = "post"
            /\ cover_image_available' = cover_ok

\* Mutant: the voice id is stored and the request then fails.
StoreAndAnswer_ThenFails(voice_id, read_ok, write) ==
    /\ voice_storage' = save_user_voice_id(UserIdParam(request.user_id), voice_id,
                                           read_ok, write)
    /\ file_truncated' = TruncatedAfter(write)
    /\ storage_errors' = LoadErrors(read_ok) \o SaveErrors(write)
    /\ response' = HttpError("create-voice", 500, "Failed to create voice model")
    /\ pc' = "done"

\* lines 429-438: the voice id is stored and the request answered
StoreAndAnswer(voice_id, read_ok, write) ==
    /\ voice_storage' = save_user_voice_id(UserIdParam(request.user_id), voice_id,
                                           read_ok, write)
    /\ file_truncated' = TruncatedAfter(write)
    /\ storage_errors' = LoadErrors(read_ok) \o SaveErrors(write)
    /\ response' = VoiceCreated(UserIdParam(request.user_id), voice_id)
    /\ pc' = "done"

\* lines 223-304, 387-414: the first requests.post and what follows its answer
first_post(result, read_ok, write) ==
    /\ pc = "post"
    /\ posts' = Append(posts, IF cover_image_available THEN "cover" ELSE "")
    /\ post_results' = Append(post_results, result)
    /\ UNCHANGED <<startup_vars, request, gs_locals, cover_image_available>>
    /\ IF result.kind = "RequestException"
       THEN /\ response' = HttpError("create-voice", 500,
                                     "Failed to connect to Fish Audio API")
            /\ pc' = "done"
            /\ UNCHANGED storage_vars
            /\ storage_errors' = storage_errors
       ELSE IF result.status = 201
       THEN IF Truthy(result.voice_id)
            THEN StoreAndAnswer(result.voice_id, read_ok, write)
            ELSE /\ response' = InnerHandler(500)
                 /\ pc' = "done"
                 /\ UNCHANGED storage_vars
                 /\ storage_errors' = storage_errors
       ELSE IF result.status = 400 /\ result.cover_image_in_text
       THEN IF ~cover_image_available
            THEN /\ response' = InnerHandler(result.status)
                 /\ pc' = "done"
                 /\ UNCHANGED storage_vars
                 /\ storage_errors' = storage_errors
            ELSE /\ response' = response
                 /\ pc' = "retry"
                 /\ UNCHANGED storage_vars
                 /\ storage_errors' = storage_errors
       ELSE /\ response' = InnerHandler(result.status)
            /\ pc' = "done"
            /\ UNCHANGED storage_vars
            /\ storage_errors' = storage_errors

\* lines 324-386: one pass of the loop over cover_field_names
retry_post(result, read_ok, write) ==
    /\ pc = "retry"
    /\ posts' = Append(posts, cover_field_names[Len(posts)])
    /\ post_results' = Append(post_results, result)
    /\ UNCHANGED <<startup_vars, request, gs_locals, cover_image_available>>
    /\ IF /\ result.kind = "response"
          /\ result.status = 201
          /\ Truthy(result.voice_id)
       THEN StoreAndAnswer(result.voice_id, read_ok, write)
       ELSE IF Len(posts) < Len(cover_field_names)
       THEN /\ response' = response
            /\ pc' = "retry"
            /\ UNCHANGED storage_vars
            /\ storage_errors' = storage_errors
       ELSE /\ response' = InnerHandler(400)
            /\ pc' = "done"
            /\ UNCHANGED storage_vars
            /\ storage_errors' = storage_errors

----------------------------------------------------------------------------
(* Inputs *)

s_Hi == <<"H","i">>

s_HAPPY == <<"H","A","P","P","Y">>

s_Sad == <<"S","a","d">>

\* an emotion outside valid_emotions
s_loud == <<"l","o","u","d">>

s_v1 == <<"v","1">>

\* Texts of the requests of Spec
SysTexts ==
    {<<>>, <<" ">>, <<"\t", "\n">>, s_Hi, EmotionTag(s_happy) \o <<" ">> \o s_Hi}

SysEmotions == {s_happy, s_neutral, s_loud}

UserIdInputs == Users \cup {Missing}

\* Texts of the requests of SpecText: padding, tags in either case, a body
TextPads == {<<>>, <<" ">>}

TextTags ==
    {<<>>, EmotionTag(s_happy), EmotionTag(s_HAPPY), EmotionTag(s_sad),
     EmotionTag(s_neutral), EmotionTag(s_loud),
     EmotionTag(s_happy) \o <<" ">> \o EmotionTag(s_happy)}

TextBodies == {<<>>, s_Hi, <<" ">> \o s_Hi, s_Hi \o <<"\n">>}

Texts == {p \o t \o b : p \in TextPads, t \in TextTags, b \in TextBodies}

Emotions ==
    {<<>>, <<" ">>, s_happy, s_HAPPY, s_sad, s_Sad, s_neutral, s_surprised,
     s_angry, s_loud}

s_v2 == <<"v","2">>

VoiceIdInputs ==
    {JsonAbsent, <<>>, <<" ">>, s_v1, <<" ">> \o s_v2 \o <<"\n">>, JsonNull}

AudioSizes == {MinAudioBytes - 1, MinAudioBytes, MaxAudioBytes, MaxAudioBytes + 1}

\* The longest prompt a client sends back as the text of its next request
MaxTextLen == 24

----------------------------------------------------------------------------
(* Specifications *)

Init ==
    \E s \in StartupScenarios :
        /\ api_key = s.key
        /\ client = StartupClient(s)
        /\ default_voice_id = StartupDefaultVoice(s)
        /\ voices = [american |-> s.american, english |-> s.english]
        /\ voice_storage = EmptyStorage
        /\ file_truncated = FALSE
        /\ pc = "idle"
        /\ request = [endpoint |-> "none"]
        /\ text = None
        /\ emotion_lower = None
        /\ prompt_text = None
        /\ user_voice_id = None
        /\ convert_params = NoParams
        /\ attempt = 0
        /\ tts_calls = <<>>
        /\ tts_results = <<>>
        /\ sleeps = <<>>
        /\ cover_image_available = FALSE
        /\ posts = <<>>
        /\ post_results = <<>>
        /\ storage_errors = <<>>
        /\ response = NoResponse

GenerateSpeech ==
    \E t \in SysTexts, e \in SysEmotions, u \in UserIdInputs, read_ok \in BOOLEAN :
        generate_speech(t, e, u, FALSE, read_ok)

TtsConvert == \E r \in TtsResults : tts_convert(r)

SleepReturns == sleep_returns

GetVoiceStatus ==
    \E u \in UserIdInputs, read_ok \in BOOLEAN : get_voice_status(u, read_ok)

SaveVoiceId ==
    \E u \in UserIdInputs, v \in VoiceIdInputs, read_ok \in BOOLEAN,
       write \in WriteOutcomes :
        save_voice_id(u, v, read_ok, write)

CreateVoice ==
    \E u \in UserIdInputs, n \in AudioSizes, cover_ok \in BOOLEAN :
        create_voice(u, n, cover_ok)

FirstPost ==
    \E r \in PostResults, read_ok \in BOOLEAN, write \in WriteOutcomes :
        first_post(r, read_ok, write)

\* In the whole system a re-upload is accepted or refused as the first upload was.
RetryPost ==
    \E r \in {Answered(201, VoiceC, FALSE), Answered(400, None, TRUE)},
       read_ok \in BOOLEAN, write \in WriteOutcomes :
        retry_post(r, read_ok, write)

RequestServed == request_served

Next ==
    \/ GenerateSpeech
    \/ TtsConvert
    \/ SleepReturns
    \/ GetVoiceStatus
    \/ SaveVoiceId
    \/ CreateVoice
    \/ FirstPost
    \/ RetryPost
    \/ RequestServed

Spec == Init /\ [][Next]_vars

\* The request normaliser on its own: every text and emotion of Texts and Emotions,
\* a client that may send a prompt back as the text of its next request, and a
\* provider that answers the one synthesis call.
GenerateSpeechText ==
    \E t \in Texts, e \in Emotions :
        generate_speech(t, e, "default", FALSE, TRUE)

\* The client sends the prompt of its last request back as text, with the same
\* emotion in any letter case.
ResubmitPrompt ==
    /\ pc = "done"
    /\ request.endpoint = "generate_speech"
    /\ prompt_text /= None
    /\ Len(prompt_text) <= MaxTextLen
    /\ \E e \in Emotions :
        /\ lower(e) = lower(request.emotion)
        /\ generate_speech(prompt_text, e, "default", TRUE, TRUE)

TtsConvertOnce == \E r \in {GotAudio(Audio1), RaisedException} : tts_convert(r)

NextText ==
    \/ GenerateSpeechText
    \/ ResubmitPrompt
    \/ TtsConvertOnce
    \/ RequestServed

SpecText == Init /\ [][NextText]_vars

\* Enrollment on its own: a server with a client, every answer of the provider to
\* every upload, the voice directory with its faults, and voice-status.
InitEnroll == Init /\ client /\ default_voice_id = None /\ ~voices.american.ok

CreateVoiceEnroll ==
    \E u \in UserIdInputs, cover_ok \in BOOLEAN : create_voice(u, MinAudioBytes, cover_ok)

RetryPostAny ==
    \E r \in RetryResults, read_ok \in BOOLEAN, write \in WriteOutcomes :
        retry_post(r, read_ok, write)

NextEnroll ==
    \/ CreateVoiceEnroll
    \/ FirstPost
    \/ RetryPostAny
    \/ GetVoiceStatus
    \/ RequestServed

SpecEnroll == InitEnroll /\ [][NextEnroll]_vars

----------------------------------------------------------------------------
(* Properties *)

IsGenerateSpeech == request.endpoint = "generate_speech"

Whitespace == {" ", "\t", "\n"}

NonNeutralEmotions == {s_happy, s_sad, s_surprised, s_angry}

\* The user whose voice a generate_speech request asks for
RequestUser == IF request.user_id \in Users THEN request.user_id ELSE "default"

HasReference(call, voice) ==
    "reference_id" \in DOMAIN call /\ call.reference_id = voice

\* C1: a generate_speech request whose text is empty or only whitespace is
\* answered 400 and no synthesis call is made, whatever the emotion, the user,
\* the client and the voice directory are.
C1_BlankTextRejected ==
    (IsGenerateSpeech /\ \A i \in DOMAIN request.text : request.text[i] \in Whitespace)
        => /\ pc = "done"
           /\ response.status = 400
           /\ tts_calls = <<>>

C1_Witness ==
    /\ IsGenerateSpeech
    /\ request.text = <<"\t", "\n">>
    /\ client
    /\ voice_storage["default"] /= None
    /\ response.status = 400

\* C2: when the provider returns audio on the first, second or third attempt, the
\* earlier attempts having raised APIError, the response is 200, audio/mpeg, with
\* the bytes of the successful attempt as its body.
C2_AudioReturned ==
    \A n \in 1..3 :
        (/\ IsGenerateSpeech
         /\ Len(tts_results) = n
         /\ tts_results[n].kind = "audio"
         /\ \A i \in 1..(n - 1) : tts_results[i].kind = "APIError")
            => /\ pc = "done"
               /\ response.status = 200
               /\ response.media_type = "audio/mpeg"
               /\ response.content = tts_results[n].audio

C2_Witness ==
    /\ IsGenerateSpeech
    /\ Len(tts_results) = 3
    /\ tts_results[1].kind = "APIError"
    /\ tts_results[2].kind = "APIError"
    /\ tts_results[3] = GotAudio(Audio2)
    /\ response.status = 200
    /\ response.content = Audio2

\* C3: the text sent to the provider is the cleaned text when the emotion resolves
\* to neutral, and "(" + lower-cased emotion + ") " + cleaned text when the emotion
\* is happy, sad, surprised or angry in any letter case.
C3_PromptText ==
    IsGenerateSpeech =>
        \A i \in DOMAIN tts_calls :
            IF lower(request.emotion) \in NonNeutralEmotions
            THEN tts_calls[i].text =
                     <<"(">> \o lower(request.emotion) \o <<")", " ">> \o text
            ELSE tts_calls[i].text = text

C3_Witness ==
    /\ IsGenerateSpeech
    /\ request.emotion = s_Sad
    /\ request.text = <<" ">> \o s_Hi \o <<"\n">>
    /\ Len(tts_calls) = 1
    /\ tts_calls[1].text = <<"(","s","a","d",")"," ","H","i">>

\* C4 (as claimed): for a text that is not blank and an emotion outside the
\* enumeration, the request is not refused and the provider is sent the prompt and
\* the speed 1.0 it is sent for the same text with emotion neutral.
C4_UnknownEmotionAsNeutral ==
    (/\ IsGenerateSpeech
     /\ \E i \in DOMAIN request.text : request.text[i] \notin Whitespace
     /\ lower(request.emotion) \notin NonNeutralEmotions \cup {s_neutral})
        => /\ response.status /= 400
           /\ \A i \in DOMAIN tts_calls :
                /\ tts_calls[i].text =
                       PromptText(CleanText(request.text, s_neutral), s_neutral)
                /\ tts_calls[i].speed = 100

\* C5: the prompt produced for a text and a non-neutral enumerated emotion, sent
\* back as the text of a request with the same emotion in any letter case, yields
\* that same prompt again.
C5_TaggingIdempotent ==
    (/\ IsGenerateSpeech
     /\ request.resubmit
     /\ lower(request.emotion) \in NonNeutralEmotions)
        => /\ prompt_text = request.text
           /\ \A i \in DOMAIN tts_calls : tts_calls[i].text = request.text

C5_Witness ==
    /\ IsGenerateSpeech
    /\ request.resubmit
    /\ request.emotion = s_HAPPY
    /\ request.text = EmotionTag(s_happy) \o <<" ">> \o s_Hi
    /\ Len(tts_calls) = 1
    /\ tts_calls[1].text = request.text

\* C6 (as claimed): the reference_id passed is the voice id the directory holds for
\* the user; the process-wide default when it holds none; absent when neither is.
C6_VoiceResolution ==
    IsGenerateSpeech =>
        \A i \in DOMAIN tts_calls :
            IF voice_storage[RequestUser] /= None
            THEN HasReference(tts_calls[i], voice_storage[RequestUser])
            ELSE IF default_voice_id /= None
            THEN HasReference(tts_calls[i], default_voice_id)
            ELSE "reference_id" \notin DOMAIN tts_calls[i]

\* C6 (amended): the same, of a directory that was read: a directory whose read
\* failed counts as holding no voice.
C6_VoiceResolutionOfReadDirectory ==
    IsGenerateSpeech =>
        \A i \in DOMAIN tts_calls :
            LET held == IF storage_errors = <<>>
                        THEN voice_storage[RequestUser]
                        ELSE None
            IN  IF held /= None
                THEN HasReference(tts_calls[i], held)
                ELSE IF default_voice_id /= None
                THEN HasReference(tts_calls[i], default_voice_id)
                ELSE "reference_id" \notin DOMAIN tts_calls[i]

C6_Witness ==
    /\ IsGenerateSpeech
    /\ request.user_id = "u1"
    /\ voice_storage["u1"] = s_v1
    /\ default_voice_id = VoiceA
    /\ Len(tts_calls) = 1
    /\ tts_calls[1].reference_id = s_v1

\* C7: a request whose every attempt raises a transient APIError calls the
\* provider exactly 3 times and is then answered 500.
C7_ThreeAttempts ==
    (/\ IsGenerateSpeech
     /\ tts_results /= <<>>
     /\ \A i \in DOMAIN tts_results :
            tts_results[i].kind = "APIError" /\ IsTransient(tts_results[i].message))
        => /\ Len(tts_calls) <= 3
           /\ pc = "done" <=> Len(tts_calls) = 3
           /\ pc = "done" => response.status = 500

C7_Witness ==
    /\ IsGenerateSpeech
    /\ pc = "done"
    /\ tts_results = <<RaisedAPIError(Msg503), RaisedAPIError(Msg503),
                       RaisedAPIError(Msg503)>>
    /\ sleeps = <<1, 2>>
    /\ response.status = 500

\* C8 (as claimed): an attempt that fails with a non-transient error is the last
\* attempt of its request, and the request is answered at once.
C8_NonTransientNotRetried ==
    IsGenerateSpeech =>
        \A i \in DOMAIN tts_results :
            (/\ tts_results[i].kind /= "audio"
             /\ ~(tts_results[i].kind = "APIError"
                  /\ IsTransient(tts_results[i].message)))
                => i = Len(tts_results) /\ pc = "done"

\* C9 (as claimed): a request that ends on the provider reporting an invalid API
\* key or an insufficient balance is answered 402 with the billing message, and
\* only such a request is answered 402.
C9_KeyOrBalanceIs402 ==
    (IsGenerateSpeech /\ pc = "done" /\ tts_results /= <<>>)
        => LET last == tts_results[Len(tts_results)]
           IN  /\ (last.kind = "APIError" /\ ReportsKeyOrBalance(last.message))
                    => /\ response.status = 402
                       /\ response.detail =
                            "Fish Audio API Error: Invalid API key or insufficient balance."
               /\ response.status = 402
                    => last.kind = "APIError" /\ ReportsKeyOrBalance(last.message)

\* C10 (as claimed): without a client every generate_speech and every create-voice
\* request is answered 500.
C10_NoClientIs500 ==
    (~client /\ pc = "done" /\ request.endpoint \in {"generate_speech", "create-voice"})
        => response.status = 500

\* C10 (amended): without a client every create-voice request and every
\* generate_speech request whose text is not blank is answered 500, nothing being
\* sent to the provider (a blank text is answered 400 first); voice-status still
\* answers 200 and save-voice-id still stores a string voice id that is not blank.
C10_NoClient ==
    ~client =>
        /\ pc \in {"idle", "done"}
        /\ tts_calls = <<>> /\ posts = <<>>
        /\ (pc = "done" /\ request.endpoint = "create-voice") => response.status = 500
        /\ (pc = "done" /\ IsGenerateSpeech)
            => response.status =
                 IF \A i \in DOMAIN request.text : request.text[i] \in Whitespace
                 THEN 400 ELSE 500
        /\ (pc = "done" /\ request.endpoint = "voice-status")
            => /\ response.status = 200
               /\ response.has_voice <=> response.voice_id /= None
               /\ response.voice_id \in {None, voice_storage[RequestUser]}
        /\ (pc = "done" /\ request.endpoint = "save-voice-id" /\ request.voice_id /= JsonNull)
            => IF \/ request.voice_id = JsonAbsent
                  \/ \A i \in DOMAIN request.voice_id : request.voice_id[i] \in Whitespace
               THEN response.status = 400
               ELSE /\ response.status = 200
                    /\ storage_errors = <<>> => voice_storage[RequestUser] = response.voice_id

C10_Witness ==
    /\ ~client
    /\ api_key
    /\ pc = "done"
    /\ request.endpoint = "create-voice"
    /\ request.audio_len < MinAudioBytes
    /\ response.status = 500

\* C11 (as claimed): every create-voice request whose audio is shorter than 1000
\* bytes or longer than 10*1024*1024 bytes is answered 400.
C11_BadSizeIs400 ==
    (/\ request.endpoint = "create-voice"
     /\ (request.audio_len < 1000 \/ request.audio_len > 10 * 1024 * 1024))
        => response.status = 400

\* C11 (amended): with a client, a create-voice request whose audio is shorter than
\* 1000 bytes or longer than 10*1024*1024 bytes is answered 400 with nothing sent
\* to the provider and the voice directory as it was, and one of exactly 1000 or
\* exactly 10*1024*1024 bytes goes on to the upload; without a client the request
\* is answered 500 whatever its size.
C11_AudioSize ==
    [][(request'.endpoint = "create-voice" /\ pc = "idle")
        => IF ~client
           THEN response'.status = 500 /\ pc' = "done" /\ posts' = <<>>
           ELSE IF request'.audio_len < 1000 \/ request'.audio_len > 10 * 1024 * 1024
           THEN /\ response'.status = 400
                /\ pc' = "done"
                /\ posts' = <<>>
                /\ voice_storage' = voice_storage
                /\ file_truncated' = file_truncated
           ELSE pc' = "post" /\ response'.status = 0]_vars

C11_Witness ==
    /\ client
    /\ request.endpoint = "create-voice"
    /\ request.audio_len = 999
    /\ voice_storage["default"] /= None
    /\ response.status = 400
    /\ posts = <<>>

\* The user a voice-status, save-voice-id or create-voice request names
NamedUser == UserIdParam(request.user_id)

\* A create-voice or save-voice-id request for user u has been answered with success.
AcceptedFor(u) ==
    /\ pc = "done"
    /\ request.endpoint \in {"create-voice", "save-voice-id"}
    /\ NamedUser = u
    /\ response.status = 200

\* C12 (as claimed): when create-voice or save-voice-id answers with success for a
\* user and a voice id, the directory holds that id for the user; it holds it
\* until the next such answer for the user; and voice-status for a user returns
\* has_voice = true with the id the directory holds for the user.
C12_StatusReturnsSavedVoice ==
    /\ [](\A u \in Users : AcceptedFor(u) => voice_storage[u] = response.voice_id)
    /\ [][\A u \in Users :
            (voice_storage[u] /= None /\ voice_storage'[u] /= voice_storage[u])
                => AcceptedFor(u)']_vars
    /\ []((/\ pc = "done"
           /\ request.endpoint = "voice-status"
           /\ voice_storage[NamedUser] /= None)
            => /\ response.has_voice
               /\ response.voice_id = voice_storage[NamedUser])

\* C13: a user for whom no create-voice has succeeded and no save-voice-id has
\* been accepted has no record, whatever is done for other users (a record for a
\* user appears only with a success answer to a create-voice or save-voice-id
\* request naming the user), and for a user without a record voice-status returns
\* has_voice = false and voice_id = null.
C13_NeverEnrolledHasNoVoice ==
    /\ [][\A u \in Users :
            (voice_storage[u] = None /\ voice_storage'[u] /= None)
                => AcceptedFor(u)']_vars
    /\ []((/\ pc = "done"
           /\ request.endpoint = "voice-status"
           /\ voice_storage[NamedUser] = None)
            => /\ response.status = 200
               /\ ~response.has_voice
               /\ response.voice_id = None)

C13_Witness ==
    /\ pc = "done"
    /\ request.endpoint = "voice-status"
    /\ request.user_id = "u1"
    /\ voice_storage = [EmptyStorage EXCEPT !["default"] = VoiceC]
    /\ storage_errors = <<>>
    /\ ~response.has_voice

\* C14 (as claimed): a save-voice-id request whose voice_id is missing, empty or
\* only whitespace is answered 400 and leaves the voice directory as it was; any
\* other voice_id is stored with its surrounding whitespace removed (the storage
\* working).
C14_SaveVoiceId ==
    [][(pc = "idle" /\ request'.endpoint = "save-voice-id")
        => IF \/ request'.voice_id = JsonAbsent
              \/ \A i \in DOMAIN request'.voice_id : request'.voice_id[i] \in Whitespace
           THEN /\ response'.status = 400
                /\ voice_storage' = voice_storage
                /\ file_truncated' = file_truncated
           ELSE storage_errors' = <<>>
                    => /\ response'.status = 200
                       /\ voice_storage' =
                            [voice_storage EXCEPT ![NamedUser'] = strip(request'.voice_id)]]_vars

IsCreateVoice == request.endpoint = "create-voice"

\* The provider accepts an upload with a voice id.
AcceptedWithId(r) == r.kind = "response" /\ r.status = 201 /\ r.voice_id \notin {None, <<>>}

\* The provider rejects an upload with status 400 citing a cover image.
CoverRefused(r) == r.kind = "response" /\ r.status = 400 /\ r.cover_image_in_text

\* The provider answers an upload with 201 and none of the identifier fields.
AcceptedWithoutId(r) == r.kind = "response" /\ r.status = 201 /\ r.voice_id \in {None, <<>>}

LastPostResult == post_results[Len(post_results)]

\* C15 (as claimed): when the first upload is rejected with 400 citing a cover
\* image, the handler re-uploads under cover, cover_image, image, coverImage,
\* thumbnail, thumb in that order, stops at the first upload accepted with a voice
\* id, and fails when all six are exhausted.
C15_CoverRetry ==
    (IsCreateVoice /\ post_results /= <<>> /\ CoverRefused(post_results[1]))
        => /\ \A i \in 2..Len(posts) :
                /\ i <= 7
                /\ posts[i] = <<"cover", "cover_image", "image", "coverImage",
                                "thumbnail", "thumb">>[i - 1]
           /\ \A i \in 2..(Len(posts) - 1) : ~AcceptedWithId(post_results[i])
           /\ IF pc = "done"
              THEN /\ Len(posts) >= 2
                   /\ IF AcceptedWithId(LastPostResult)
                      THEN /\ response.status = 200
                           /\ response.voice_id = LastPostResult.voice_id
                      ELSE Len(posts) = 7 /\ response.status >= 400
              ELSE /\ pc = "retry"
                   /\ Len(posts) >= 2 => ~AcceptedWithId(LastPostResult)

\* C15 (amended): the same when a cover image could be made; when none could be
\* made the request fails after the first upload.  A request that fails leaves the
\* voice directory as it was.
C15_CoverRetryWithCoverImage ==
    /\ []((/\ IsCreateVoice
           /\ post_results /= <<>>
           /\ CoverRefused(post_results[1])
           /\ ~cover_image_available)
            => Len(posts) = 1 /\ pc = "done" /\ response.status >= 400)
    /\ [](cover_image_available => C15_CoverRetry)
    /\ [][(pc \in {"post", "retry"} /\ pc' = "done" /\ response'.status /= 200)
            => (voice_storage' = voice_storage /\ file_truncated' = file_truncated)]_vars

C15_Witness ==
    /\ IsCreateVoice
    /\ pc = "done"
    /\ posts = <<"cover", "cover", "cover_image", "image", "coverImage",
                 "thumbnail", "thumb">>
    /\ post_results[4] = PostFailed
    /\ AcceptedWithoutId(post_results[6])
    /\ CoverRefused(LastPostResult)
    /\ response.status = 500

\* C16: the speed passed to the provider is a function of the lower-cased emotion
\* alone: happy 1.10, sad 0.90, neutral 1.00, surprised 1.15, angry 1.05, and
\* 1.00 for every other value.
C16_SpeedOfEmotion ==
    IsGenerateSpeech =>
        \A i \in DOMAIN tts_calls :
            LET e == lower(request.emotion)
            IN  tts_calls[i].speed =
                    CASE e = <<"h","a","p","p","y">> -> 110
                      [] e = <<"s","a","d">> -> 90
                      [] e = <<"n","e","u","t","r","a","l">> -> 100
                      [] e = <<"s","u","r","p","r","i","s","e","d">> -> 115
                      [] e = <<"a","n","g","r","y">> -> 105
                      [] OTHER -> 100

C16_Witness ==
    /\ IsGenerateSpeech
    /\ request.emotion = s_Sad
    /\ request.text = EmotionTag(s_HAPPY) \o s_Hi
    /\ Len(tts_calls) = 1
    /\ tts_calls[1].speed = 90

\* C17 (as claimed): once the voice directory holds a record for a user it holds
\* one for that user ever after.
C17_RecordsNeverDeleted ==
    [][\A u \in Users : voice_storage[u] /= None => voice_storage'[u] /= None]_vars

\* C18 (as claimed): every synthesis call is made for a cleaned text that is not
\* empty: its prompt is neither empty nor only an emotion tag.
C18_CleanedTextNotEmpty ==
    IsGenerateSpeech =>
        \A i \in DOMAIN tts_calls :
            /\ text /= <<>>
            /\ strip(tts_calls[i].text) /= <<>>
            /\ strip(tts_calls[i].text) /= EmotionTag(emotion_lower)

\* C19 (as claimed): a create-voice request one of whose uploads the provider
\* answered with 201 and none of the identifier fields fails with an error (and so
\* writes nothing to the voice directory).
C19_NoIdFails ==
    (/\ IsCreateVoice
     /\ pc = "done"
     /\ \E i \in DOMAIN post_results : AcceptedWithoutId(post_results[i]))
        => response.status >= 400

\* C20 (as claimed): a storage write that fails leaves the persisted mapping, as
\* later requests read it, exactly what it was before the write.
C20_FailedWriteIsNoOp ==
    [][Contains(storage_errors', "Error saving voice storage")
        => voice_storage' = voice_storage]_vars

\* C21: generate_speech waits 1 second between its attempts 1 and 2 and 2 seconds
\* between its attempts 2 and 3; it waits only after an attempt that failed and is
\* followed by another attempt, and never after the third attempt.
C21_Backoff ==
    IsGenerateSpeech =>
        /\ Len(sleeps) <= 2
        /\ \A i \in DOMAIN sleeps :
                /\ sleeps[i] = 2 ^ (i - 1)
                /\ tts_results[i].kind /= "audio"
        /\ Len(sleeps) = CASE pc = "sleep" -> Len(tts_results)
                            [] pc = "convert" -> Len(tts_calls)
                            [] OTHER -> IF tts_results = <<>> THEN 0
                                        ELSE Len(tts_results) - 1
        /\ Len(tts_results) = 3 => pc = "done"

C21_Witness ==
    /\ IsGenerateSpeech
    /\ pc = "done"
    /\ sleeps = <<1, 2>>
    /\ tts_results = <<RaisedAPIError(Msg402), RaisedAPIError(Msg503),
                       GotAudio(Audio1)>>

\* C22: no step of a generate_speech request, answered with audio or with an
\* error and after any number of retries, changes the voice directory or the
\* process-wide default voice id.
C22_GenerateSpeechFrame ==
    [][request'.endpoint = "generate_speech"
        => /\ voice_storage' = voice_storage
           /\ file_truncated' = file_truncated
           /\ default_voice_id' = default_voice_id]_vars

C22_Witness ==
    /\ IsGenerateSpeech
    /\ pc = "done"
    /\ Len(tts_calls) = 3
    /\ response.status = 402
    /\ storage_errors /= <<>>
    /\ voice_storage = [default |-> VoiceC, u1 |-> s_v1]
    /\ default_voice_id = VoiceE

\* The first voice of a list the provider has, None when it has none or the query
\* for it fails.
FirstVoice(answer) ==
    IF answer.ok /\ Len(answer.items) > 0 THEN answer.items[1] ELSE None

\* C23 (as claimed): the process-wide default voice is at all times the first voice
\* of the provider's American-tagged English list when that list is not empty,
\* otherwise the first voice of the provider's English list when that list is not
\* empty, also when the American query failed, otherwise none.
C23_DefaultVoice ==
    default_voice_id =
        IF ~client THEN None
        ELSE IF FirstVoice(voices.american) /= None THEN FirstVoice(voices.american)
        ELSE FirstVoice(voices.english)

\* C24 (as claimed): while a generate_speech request waits in its backoff, the
\* server can take and handle another request, a voice-status or a second
\* generate_speech, before the wait is over.
C24_OthersRunDuringBackoff ==
    pc = "sleep" => (ENABLED GetVoiceStatus /\ ENABLED GenerateSpeech)

C26_SuccessHasVoiceId ==
    (IsCreateVoice /\ response.status \in 200..299)
        => /\ pc = "done"
           /\ response.status = 200
           /\ response.success = TRUE
           /\ response.voice_id \notin {None, <<>>}
           /\ post_results /= <<>>
           /\ LastPostResult.kind = "response"
           /\ LastPostResult.status = 201
           /\ LastPostResult.voice_id = response.voice_id

C26_Witness ==
    /\ IsCreateVoice
    /\ ~cover_image_available
    /\ post_results = <<Answered(201, VoiceC, FALSE)>>
    /\ storage_errors /= <<>>
    /\ response.status = 200
    /\ response.voice_id = VoiceC

\* C27: no step of a create-voice request that does not answer it with success
\* changes the voice directory, so a request that ends in an error response leaves
\* the directory as it was before the request; and an error response is given
\* with the directory never read or written by the request.
C27_FailedCreateVoiceFrame ==
    /\ [][(request'.endpoint = "create-voice"
            /\ ~(pc' = "done" /\ response'.status = 200))
            => /\ voice_storage' = voice_storage
               /\ file_truncated' = file_truncated]_vars
    /\ []((IsCreateVoice /\ pc = "done" /\ response.status >= 400)
            => storage_errors = <<>>)

C27_Witness ==
    /\ IsCreateVoice
    /\ pc = "done"
    /\ request.user_id = "u1"
    /\ Len(posts) = 7
    /\ response.status = 500
    /\ voice_storage = [default |-> s_v2, u1 |-> s_v1]

====
